---- MODULE Spec2Model ----
(***************************************************************************)
(* A model of the review-analysis backend: the aggregate functions         *)
(* (calculateSentimentSummary, calculateSentimentShift), the response      *)
(* sanitizer (cleanJSONResponse), the Groq gateway (GroqClient), the       *)
(* orchestrator (DefaultAnalysisService.Analyze) and the HTTP handlers     *)
(* (APIHandler.HandleUpload, APIHandler.HandleAnalyze).                    *)
(*                                                                         *)
(* Conventions.                                                            *)
(*  - A Go string is a sequence of one-character strings.                  *)
(*  - A Go pointer or optional value is a sequence of length 0 (nil) or 1. *)
(*  - A Go error is a record [chain, response]: chain is the sequence of   *)
(*    message parts from the outermost fmt.Errorf context to the innermost *)
(*    cause, response is the text a "%s" verb embedded; nil is NoError.    *)
(*  - A float64 is an exact rational [num, den] with den > 0; rounding of  *)
(*    the binary representation is not modelled.                           *)
(***************************************************************************)
EXTENDS Integers, Sequences, FiniteSets, TLC

VARIABLES
    h,        \* APIHandler fields preReviews, postReviews (shared by all requests)
    pc,       \* per request goroutine: position in HandleUpload / HandleAnalyze / Analyze
    req,      \* per request goroutine: the HTTP request being served
    an,       \* per request goroutine: the locals of Analyze
    calls,    \* per request goroutine: the LLMAnalyzer calls of the current run, in order
    resp,     \* per request goroutine: the HTTP response last written
    uploaded, \* per client: the pair of its latest upload request if answered 200 (history)
    provider, \* the HTTP exchanges the provider may answer a request with
    fnName,   \* function under evaluation in the pure-function specifications
    fnIn,     \* its arguments
    fnOut     \* its return value: <<>> before the call, <<v>> after

vars == <<h, pc, req, an, calls, resp, uploaded, provider, fnName, fnIn, fnOut>>

svcVars == <<h, pc, req, an, calls, resp, uploaded, provider>>
fnVars == <<fnName, fnIn, fnOut>>

(***************************************************************************)
(* Bounds of the model.                                                    *)
(***************************************************************************)
MaxReviews == 2     \* longest review sequence given to the aggregate functions
MaxSentiments == 3  \* longest sentiment-result sequence given to them
MaxCount == 2       \* largest per-bucket count of a summary given to the shift
MaxPad == 1         \* longest run of blanks around a code-fence marker

\* the elements of a sequence
Range(s) == {s[i] : i \in 1..Len(s)}

SeqsUpTo(S, n) == UNION {[1..k -> S] : k \in 0..n}

(***************************************************************************)
(* float64 values as exact rationals.                                      *)
(***************************************************************************)
Rat(n, d) == [num |-> n, den |-> d]

FloatOfInt(n) == Rat(n, 1)

FloatZero == Rat(0, 1)

FloatDiv(a, b) == IF b.num > 0 THEN Rat(a.num * b.den, a.den * b.num)
                  ELSE Rat(-(a.num * b.den), -(a.den * b.num))

FloatMul(a, b) == Rat(a.num * b.num, a.den * b.den)

FloatSub(a, b) == Rat(a.num * b.den - b.num * a.den, a.den * b.den)

FloatEq(a, b) == a.num * b.den = b.num * a.den

FloatLe(a, b) == a.num * b.den <= b.num * a.den

(***************************************************************************)
(* The data model (types of the Go package).                               *)
(***************************************************************************)
Review(id, rating) ==
    [ID |-> id, Date |-> "", UserID |-> "", ReviewText |-> "", Rating |-> rating,
     Source |-> ""]

SentimentResult(id, sentiment) ==
    [ReviewID |-> id, Sentiment |-> sentiment, Score |-> FloatOfInt(1)]

SentimentSummary(p, n, u, avg) ==
    [Positive |-> p, Negative |-> n, Neutral |-> u, Average |-> avg]

\* the zero value SentimentSummary{}
ZeroSummary == SentimentSummary(0, 0, 0, FloatZero)

(***************************************************************************)
(* Aggregator.                                                             *)
(***************************************************************************)

\* Mutant: only the label "neutral" is counted as neutral; other labels are dropped.
RECURSIVE CountSentimentsStrict(_, _)
CountSentimentsStrict(sentiments, summary) ==
    IF sentiments = <<>> THEN summary
    ELSE LET s == Head(sentiments) IN
         CountSentimentsStrict(Tail(sentiments),
            CASE s.Sentiment = "positive" -> [summary EXCEPT !.Positive = @ + 1]
              [] s.Sentiment = "negative" -> [summary EXCEPT !.Negative = @ + 1]
              [] s.Sentiment = "neutral" -> [summary EXCEPT !.Neutral = @ + 1]
              [] OTHER -> summary)

\* Mutant: labels are matched without regard to the case of their first letter.
RECURSIVE CountSentimentsFolded(_, _)
CountSentimentsFolded(sentiments, summary) ==
    IF sentiments = <<>> THEN summary
    ELSE LET s == Head(sentiments) IN
         CountSentimentsFolded(Tail(sentiments),
            CASE s.Sentiment \in {"positive", "Positive"} ->
                    [summary EXCEPT !.Positive = @ + 1]
              [] s.Sentiment \in {"negative", "Negative"} ->
                    [summary EXCEPT !.Negative = @ + 1]
              [] OTHER -> [summary EXCEPT !.Neutral = @ + 1])

\* the loop "for _, s := range sentiments { switch s.Sentiment ... }"
RECURSIVE CountSentiments(_, _)
CountSentiments(sentiments, summary) ==
    IF sentiments = <<>> THEN summary
    ELSE LET s == Head(sentiments) IN
         CountSentiments(Tail(sentiments),
            CASE s.Sentiment = "positive" -> [summary EXCEPT !.Positive = @ + 1]
              [] s.Sentiment = "negative" -> [summary EXCEPT !.Negative = @ + 1]
              [] OTHER -> [summary EXCEPT !.Neutral = @ + 1])

\* the loop "for _, r := range reviews { total += r.Rating }"
RECURSIVE SumRatings(_, _)
SumRatings(reviews, total) ==
    IF reviews = <<>> THEN total
    ELSE SumRatings(Tail(reviews), total + Head(reviews).Rating)

\* Mutant: the average is taken over the number of sentiment results.
RateAverageBySentiments(summary, sentiments, reviews) ==
    IF Len(sentiments) > 0
    THEN [summary EXCEPT !.Average =
            FloatDiv(FloatOfInt(SumRatings(reviews, 0)), FloatOfInt(Len(sentiments)))]
    ELSE summary

\* "if len(reviews) > 0 { ...; summary.Average = float64(total) / float64(len(reviews)) }"
RateAverage(summary, sentiments, reviews) ==
    IF Len(reviews) > 0
    THEN [summary EXCEPT !.Average =
            FloatDiv(FloatOfInt(SumRatings(reviews, 0)), FloatOfInt(Len(reviews)))]
    ELSE summary

calculateSentimentSummary(sentiments, reviews) ==
    RateAverage(CountSentiments(sentiments, ZeroSummary), sentiments, reviews)

\* Mutant: both positive rates are taken over the combined total of the two sides.
calculateSentimentShiftShared(pre, post) ==
    LET preTotal == pre.Positive + pre.Negative + pre.Neutral
        postTotal == post.Positive + post.Negative + post.Neutral
    IN  IF preTotal = 0 \/ postTotal = 0 THEN FloatZero
        ELSE LET all == FloatOfInt(preTotal + postTotal)
                 prePositiveRate ==
                    FloatMul(FloatDiv(FloatOfInt(pre.Positive), all), FloatOfInt(100))
                 postPositiveRate ==
                    FloatMul(FloatDiv(FloatOfInt(post.Positive), all), FloatOfInt(100))
             IN  FloatSub(postPositiveRate, prePositiveRate)

calculateSentimentShift(pre, post) ==
    LET preTotal == pre.Positive + pre.Negative + pre.Neutral
        postTotal == post.Positive + post.Negative + post.Neutral
    IN  IF preTotal = 0 \/ postTotal = 0 THEN FloatZero
        ELSE LET prePositiveRate ==
                    FloatMul(FloatDiv(FloatOfInt(pre.Positive), FloatOfInt(preTotal)),
                             FloatOfInt(100))
                 postPositiveRate ==
                    FloatMul(FloatDiv(FloatOfInt(post.Positive), FloatOfInt(postTotal)),
                             FloatOfInt(100))
             IN  FloatSub(postPositiveRate, prePositiveRate)


(***************************************************************************)
(* Response sanitizer (gemini.go, helper functions).                       *)
(***************************************************************************)
IsBlank(ch) == ch \in {" ", "\n", "\t"}

\* "for len(s) > 0 && (s[0] == ' ' || s[0] == '\n' || s[0] == '\t') { s = s[1:] }"
RECURSIVE TrimLeft(_)
TrimLeft(s) == IF Len(s) > 0 /\ IsBlank(s[1]) THEN TrimLeft(Tail(s)) ELSE s

\* "for len(s) > 0 && (s[len(s)-1] == ' ' || ...) { s = s[:len(s)-1] }"
RECURSIVE TrimRight(_)
TrimRight(s) ==
    IF Len(s) > 0 /\ IsBlank(s[Len(s)]) THEN TrimRight(SubSeq(s, 1, Len(s) - 1)) ELSE s

removePrefix(s, prefix) ==
    LET t == TrimLeft(s)
    IN  IF Len(t) >= Len(prefix) /\ SubSeq(t, 1, Len(prefix)) = prefix
        THEN SubSeq(t, Len(prefix) + 1, Len(t))
        ELSE t

removeSuffix(s, suffix) ==
    LET t == TrimRight(s)
    IN  IF Len(t) >= Len(suffix) /\ SubSeq(t, Len(t) - Len(suffix) + 1, Len(t)) = suffix
        THEN SubSeq(t, 1, Len(t) - Len(suffix))
        ELSE t

\* the backquote character: a TLA+ string cannot hold it, "'" stands for it
Tick == "'"

\* the marker of three backquotes
Fence == <<Tick, Tick, Tick>>

FenceJSON == Fence \o <<"j", "s", "o", "n">>

cleanJSONResponse(response) ==
    removeSuffix(removePrefix(removePrefix(response, FenceJSON), Fence), Fence)

(***************************************************************************)
(* JSON documents.  A document is one element of a string (a token that    *)
(* stands for its text); DocValue gives what encoding/json reads from it.  *)
(* json.Unmarshal skips blanks around the document, matches object keys to *)
(* the struct's json tags, ignores unknown keys and leaves the fields of   *)
(* absent keys at their zero value; null leaves the target at its zero     *)
(* value.                                                                  *)
(***************************************************************************)
DocTokens == {"D_sentiments_a", "D_sentiments_b", "D_themes", "D_impact", "D_null"}

DocValue(tok) ==
    CASE tok = "D_sentiments_a" ->
            [type |-> "array",
             items |-> << [review_id |-> "r1", sentiment |-> "positive",
                           score |-> FloatOfInt(1)],
                          [review_id |-> "r2", sentiment |-> "negative",
                           score |-> FloatOfInt(1)] >>]
      [] tok = "D_sentiments_b" ->
            [type |-> "array",
             items |-> << [review_id |-> "r1", sentiment |-> "mixed",
                           score |-> FloatOfInt(0)] >>]
      [] tok = "D_themes" ->
            [type |-> "array",
             items |-> << [theme |-> "pricing", pre_count |-> 1, post_count |-> 2,
                           change_rate |-> FloatOfInt(100),
                           sentiment |-> "positive"] >>]
      [] tok = "D_impact" ->
            [type |-> "object",
             items |-> << [overall_success |-> TRUE, success_score |-> FloatOfInt(75),
                           key_improvements |-> <<"faster">>,
                           critical_issues |-> <<>>,
                           recommendations |-> <<"ship">>,
                           executive_summary |-> "ok"] >>]
      [] OTHER -> [type |-> "null", items |-> <<>>]

IsJSONSpace(ch) == ch \in {" ", "\n", "\t", "\r"}

RECURSIVE SkipSpaceLeft(_)
SkipSpaceLeft(s) == IF Len(s) > 0 /\ IsJSONSpace(s[1]) THEN SkipSpaceLeft(Tail(s)) ELSE s

RECURSIVE SkipSpaceRight(_)
SkipSpaceRight(s) ==
    IF Len(s) > 0 /\ IsJSONSpace(s[Len(s)])
    THEN SkipSpaceRight(SubSeq(s, 1, Len(s) - 1))
    ELSE s

Field(obj, key, zero) == IF key \in DOMAIN obj THEN obj[key] ELSE zero

ThemeResult(theme, pre, post, rate, sentiment) ==
    [Theme |-> theme, PreCount |-> pre, PostCount |-> post, ChangeRate |-> rate,
     Sentiment |-> sentiment]

ImpactSummary(ok, score, improvements, issues, recommendations, summary) ==
    [OverallSuccess |-> ok, SuccessScore |-> score, KeyImprovements |-> improvements,
     CriticalIssues |-> issues, Recommendations |-> recommendations,
     ExecutiveSummary |-> summary]

DecodeSentiment(obj) ==
    [ReviewID |-> Field(obj, "review_id", ""),
     Sentiment |-> Field(obj, "sentiment", ""),
     Score |-> Field(obj, "score", FloatZero)]

DecodeTheme(obj) ==
    ThemeResult(Field(obj, "theme", ""), Field(obj, "pre_count", 0),
                Field(obj, "post_count", 0), Field(obj, "change_rate", FloatZero),
                Field(obj, "sentiment", ""))

DecodeImpact(obj) ==
    ImpactSummary(Field(obj, "overall_success", FALSE),
                  Field(obj, "success_score", FloatZero),
                  Field(obj, "key_improvements", <<>>),
                  Field(obj, "critical_issues", <<>>),
                  Field(obj, "recommendations", <<>>),
                  Field(obj, "executive_summary", ""))

Decode(target, obj) ==
    CASE target = "sentiments" -> DecodeSentiment(obj)
      [] target = "themes" -> DecodeTheme(obj)
      [] OTHER -> DecodeImpact(obj)

\* the zero value of ImpactSummary, which "var result ImpactSummary" starts from
ZeroImpact == ImpactSummary(FALSE, FloatZero, <<>>, <<>>, <<>>, "")

\* json.Unmarshal([]byte(text), &v) for v a []SentimentResult ("sentiments"), a
\* []ThemeResult ("themes") or an ImpactSummary ("impact"): [ok, value], value a
\* sequence of decoded elements (one element for "impact").
Unmarshal(text, target) ==
    LET t == SkipSpaceRight(SkipSpaceLeft(text))
        wanted == IF target = "impact" THEN "object" ELSE "array"
    IN  IF Len(t) # 1 \/ t[1] \notin DocTokens
        THEN [ok |-> FALSE, value |-> <<>>]
        ELSE LET d == DocValue(t[1])
             IN  IF d.type = "null"
                 THEN [ok |-> TRUE,
                       value |-> IF target = "impact" THEN <<ZeroImpact>> ELSE <<>>]
                 ELSE IF d.type # wanted
                 THEN [ok |-> FALSE, value |-> <<>>]
                 ELSE [ok |-> TRUE,
                       value |-> [i \in DOMAIN d.items |-> Decode(target, d.items[i])]]

(***************************************************************************)
(* The provider and GroqClient.callGroqAPI.  An HTTP exchange is the       *)
(* record of what client.Do, io.ReadAll and the provider produce.          *)
(***************************************************************************)
\* doErr: client.Do failed; readErr: io.ReadAll failed; status: resp.StatusCode; body:
\* the raw body; bodyOK: the body unmarshals into a GroqResponse; apiError: its Error
\* (<<>> for nil, else <<message>>); choices: the content of each of its Choices
Exchange(doErr, readErr, status, body, bodyOK, apiError, choices) ==
    [doErr |-> doErr, readErr |-> readErr, status |-> status, body |-> body,
     bodyOK |-> bodyOK, apiError |-> apiError, choices |-> choices]

Error(chain, response) == [chain |-> chain, response |-> response]

\* the nil error
NoError == Error(<<>>, <<>>)

\* Mutant: the context replaces the cause (fmt.Errorf without %w).
WrapErrorDropCause(context, err) == Error(<<context>>, <<>>)

\* fmt.Errorf(context + ": %w", err)
WrapError(context, err) == Error(<<context>> \o err.chain, err.response)

StatusOK == 200

callGroqAPI(x) ==
    IF x.doErr
    THEN [content |-> <<>>, err |-> Error(<<"failed to call Groq API", "transport">>, <<>>)]
    ELSE IF x.readErr
    THEN [content |-> <<>>, err |-> Error(<<"failed to read response", "read">>, <<>>)]
    ELSE IF x.status # StatusOK
    THEN [content |-> <<>>,
          err |-> Error(<<"Groq API error (status)", ToString(x.status)>>, x.body)]
    ELSE IF ~x.bodyOK
    THEN [content |-> <<>>, err |-> Error(<<"failed to parse response", "json">>, <<>>)]
    ELSE IF x.apiError # <<>>
    THEN [content |-> <<>>, err |-> Error(<<"Groq API error">> \o x.apiError, <<>>)]
    ELSE IF Len(x.choices) = 0
    THEN [content |-> <<>>, err |-> Error(<<"empty response from Groq">>, <<>>)]
    ELSE [content |-> x.choices[1], err |-> NoError]

(***************************************************************************)
(* GroqClient: the three LLMAnalyzer operations.  Each is split at the     *)
(* provider request: ...Begin is the code up to callGroqAPI (the prompt it *)
(* sends, or its return when it sends none), ...End the code after it.     *)
(* json.Marshal of the request and http.NewRequest cannot fail for the     *)
(* fixed model name and URL, so their error returns are left out.          *)
(***************************************************************************)
Outcome(value, err) == [value |-> value, err |-> err]

\* reviewsText: one line "ID | Rating | Review" per review
SentimentPrompt(reviews) ==
    [op |-> "AnalyzeSentiments",
     lines |-> [i \in DOMAIN reviews |->
                   <<reviews[i].ID, reviews[i].Rating, reviews[i].ReviewText>>]]

\* Mutant: a request is sent for an empty review sequence too.
AnalyzeSentimentsBeginAlways(reviews) ==
    [sends |-> TRUE, prompt |-> SentimentPrompt(reviews), out |-> Outcome(<<>>, NoError)]

\* "if len(reviews) == 0 { return []SentimentResult{}, nil }", else the prompt
AnalyzeSentimentsBegin(reviews) ==
    IF Len(reviews) = 0
    THEN [sends |-> FALSE, prompt |-> SentimentPrompt(reviews),
          out |-> Outcome(<<>>, NoError)]
    ELSE [sends |-> TRUE, prompt |-> SentimentPrompt(reviews),
          out |-> Outcome(<<>>, NoError)]

\* the code shared by the three operations after callGroqAPI returns
ParseReply(x, target, context) ==
    LET r == callGroqAPI(x)
    IN  IF r.err # NoError THEN Outcome(<<>>, r.err)
        ELSE LET response == cleanJSONResponse(r.content)
                 u == Unmarshal(response, target)
             IN  IF ~u.ok
                 THEN Outcome(<<>>, Error(<<context, "json">>, response))
                 ELSE Outcome(u.value, NoError)

AnalyzeSentimentsEnd(x) == ParseReply(x, "sentiments", "failed to parse sentiment results")

formatReviewsForThemes(reviews) ==
    [i \in DOMAIN reviews |-> <<reviews[i].ReviewText, reviews[i].Rating>>]

ExtractThemesBegin(preReviews, postReviews) ==
    [sends |-> TRUE,
     prompt |-> [op |-> "ExtractThemes", pre |-> formatReviewsForThemes(preReviews),
                 post |-> formatReviewsForThemes(postReviews)],
     out |-> Outcome(<<>>, NoError)]

ExtractThemesEnd(x) == ParseReply(x, "themes", "failed to parse theme results")

formatThemesForSummary(themes) ==
    [i \in DOMAIN themes |->
        <<themes[i].Theme, themes[i].PreCount, themes[i].PostCount,
          themes[i].ChangeRate, themes[i].Sentiment>>]

GenerateImpactSummaryBegin(pre, post, comparison) ==
    [sends |-> TRUE,
     prompt |-> [op |-> "GenerateImpactSummary",
                 preCount |-> pre.Count,
                 preSentiment |-> comparison.PreLaunchSentiment,
                 postCount |-> post.Count,
                 postSentiment |-> comparison.PostLaunchSentiment,
                 shift |-> comparison.SentimentShift,
                 themes |-> formatThemesForSummary(comparison.Themes)],
     out |-> Outcome(<<>>, NoError)]

\* the value is <<result>>, the ImpactSummary that the returned pointer refers to
GenerateImpactSummaryEnd(x) == ParseReply(x, "impact", "failed to parse impact summary")

(***************************************************************************)
(* DefaultAnalysisService.Analyze, run by the goroutine of client c.       *)
(* "an_<stage>" is the point before the stage's LLMAnalyzer call,          *)
(* "an_<stage>_wait" the point where its provider request is in flight,    *)
(* "an_ret" the point where Analyze has returned an[c].ret to its caller.  *)
(***************************************************************************)
Clients == {"c1", "c2"}

Timestamps == {"2026-01-01T00:00:00Z", "2026-01-01T00:00:01Z"}

ReviewCollection(reviews, type) ==
    [Reviews |-> reviews, Type |-> type, Count |-> Len(reviews)]

ComparisonResult(preSummary, postSummary, shift, themes) ==
    [PreLaunchSentiment |-> preSummary, PostLaunchSentiment |-> postSummary,
     SentimentShift |-> shift, Themes |-> themes]

AnalysisResult(pre, post, comparison, impact, at) ==
    [PreLaunchReviews |-> pre, PostLaunchReviews |-> post, Comparison |-> comparison,
     Impact |-> impact, AnalyzedAt |-> at]

\* what Analyze returns: result is <<>> (nil) or <<AnalysisResult>>
Return(result, err) == [result |-> result, err |-> err]

\* the locals of Analyze; summaries is <<>> or <<preSummary, postSummary>>,
\* comparison is <<>> or <<ComparisonResult>>, ret is <<>> or <<Return>>
NoLocals == [preReviews |-> <<>>, postReviews |-> <<>>,
             preSentiments |-> <<>>, postSentiments |-> <<>>,
             summaries |-> <<>>, themes |-> <<>>, comparison |-> <<>>, ret |-> <<>>]

Locals(preReviews, postReviews) ==
    [NoLocals EXCEPT !.preReviews = preReviews, !.postReviews = postReviews]

NoRequest == [kind |-> "none", method |-> "", formOK |-> TRUE,
              preLaunch |-> <<>>, postLaunch |-> <<>>, preCount |-> 0]

NoResponse == [code |-> 0, error |-> "", details |-> NoError, body |-> <<>>]


\* the service as NewAPIHandler leaves it, with no request in progress
ServiceIdle ==
    /\ h = [preReviews |-> <<>>, postReviews |-> <<>>]
    /\ pc = [c \in Clients |-> "idle"]
    /\ req = [c \in Clients |-> NoRequest]
    /\ an = [c \in Clients |-> NoLocals]
    /\ calls = [c \in Clients |-> <<>>]
    /\ resp = [c \in Clients |-> NoResponse]
    /\ uploaded = [c \in Clients |-> <<>>]
    /\ provider = {}

preCollection(l) == ReviewCollection(l.preReviews, "pre_launch")

\* Mutant: the post-launch collection is built from the pre-launch reviews.
postCollectionOfPre(l) == ReviewCollection(l.preReviews, "post_launch")

postCollection(l) == ReviewCollection(l.postReviews, "post_launch")

\* Mutant: theme extraction is started before post-launch scoring.
NextStageThemesFirst(stage) ==
    CASE stage = "an_pre" -> "an_themes"
      [] stage = "an_themes" -> "an_post"
      [] stage = "an_post" -> "an_impact"
      [] OTHER -> "an_ret"

\* the statement order of Analyze
NextStage(stage) ==
    CASE stage = "an_pre" -> "an_post"
      [] stage = "an_post" -> "an_themes"
      [] stage = "an_themes" -> "an_impact"
      [] OTHER -> "an_ret"

\* Mutant: a failed stage is run again.
ContinueRetry(stage, err) == IF err # NoError THEN stage ELSE NextStage(stage)

\* "if err != nil { return nil, ... }", else the next statement
Continue(stage, err) == IF err # NoError THEN "an_ret" ELSE NextStage(stage)

\* the error Analyze returns when the stage's call failed with err
StageError(stage, err) ==
    WrapError(CASE stage = "an_pre" -> "failed to analyze pre-launch sentiments"
                [] stage = "an_post" -> "failed to analyze post-launch sentiments"
                [] stage = "an_themes" -> "failed to extract themes"
                [] OTHER -> "failed to generate impact summary",
              err)

Failed(l, stage, err) == [l EXCEPT !.ret = <<Return(<<>>, StageError(stage, err))>>]

\* the locals after the stage's call returned out (at is the clock reading of stage 4)
AfterPre(l, out) ==
    IF out.err # NoError THEN Failed(l, "an_pre", out.err)
    ELSE [l EXCEPT !.preSentiments = out.value]

AfterPost(l, out) ==
    IF out.err # NoError THEN Failed(l, "an_post", out.err)
    ELSE [l EXCEPT !.postSentiments = out.value,
                   !.summaries =
                      <<calculateSentimentSummary(l.preSentiments, l.preReviews),
                        calculateSentimentSummary(out.value, l.postReviews)>>]

AfterThemes(l, out) ==
    IF out.err # NoError THEN Failed(l, "an_themes", out.err)
    ELSE [l EXCEPT !.themes = out.value,
                   !.comparison =
                      <<ComparisonResult(l.summaries[1], l.summaries[2],
                            calculateSentimentShift(l.summaries[1], l.summaries[2]),
                            out.value)>>]

AfterImpact(l, out, at) ==
    IF out.err # NoError THEN Failed(l, "an_impact", out.err)
    ELSE [l EXCEPT !.ret =
            <<Return(<<AnalysisResult(preCollection(l), postCollection(l),
                                      l.comparison[1], out.value[1], at)>>,
                     NoError)>>]

\* an entry of the call log: the operation, its arguments, the prompts it sent to the
\* provider, whether it has returned, and what it returned
Call(op, args, b) ==
    [op |-> op, args |-> args,
     sent |-> IF b.sends THEN <<b.prompt>> ELSE <<>>,
     state |-> IF b.sends THEN "inflight" ELSE "returned",
     out |-> b.out]

Returned(log, out) ==
    [log EXCEPT ![Len(log)] = [@ EXCEPT !.state = "returned", !.out = out]]

fixedByAnalyze == <<h, req, resp, uploaded, provider, fnVars>>

AnalyzePreBegin(c) ==
    /\ pc[c] = "an_pre"
    /\ LET b == AnalyzeSentimentsBegin(an[c].preReviews)
       IN  /\ calls' = [calls EXCEPT ![c] =
                          Append(@, Call("AnalyzeSentiments",
                                         [reviews |-> an[c].preReviews], b))]
           /\ an' = [an EXCEPT ![c] = IF b.sends THEN @ ELSE AfterPre(@, b.out)]
           /\ pc' = [pc EXCEPT ![c] = IF b.sends THEN "an_pre_wait"
                                      ELSE Continue("an_pre", b.out.err)]
    /\ UNCHANGED fixedByAnalyze

AnalyzePreEnd(c) ==
    /\ pc[c] = "an_pre_wait"
    /\ \E x \in provider :
          LET out == AnalyzeSentimentsEnd(x)
          IN  /\ calls' = [calls EXCEPT ![c] = Returned(@, out)]
              /\ an' = [an EXCEPT ![c] = AfterPre(@, out)]
              /\ pc' = [pc EXCEPT ![c] = Continue("an_pre", out.err)]
    /\ UNCHANGED fixedByAnalyze

AnalyzePostBegin(c) ==
    /\ pc[c] = "an_post"
    /\ LET b == AnalyzeSentimentsBegin(an[c].postReviews)
       IN  /\ calls' = [calls EXCEPT ![c] =
                          Append(@, Call("AnalyzeSentiments",
                                         [reviews |-> an[c].postReviews], b))]
           /\ an' = [an EXCEPT ![c] = IF b.sends THEN @ ELSE AfterPost(@, b.out)]
           /\ pc' = [pc EXCEPT ![c] = IF b.sends THEN "an_post_wait"
                                      ELSE Continue("an_post", b.out.err)]
    /\ UNCHANGED fixedByAnalyze

AnalyzePostEnd(c) ==
    /\ pc[c] = "an_post_wait"
    /\ \E x \in provider :
          LET out == AnalyzeSentimentsEnd(x)
          IN  /\ calls' = [calls EXCEPT ![c] = Returned(@, out)]
              /\ an' = [an EXCEPT ![c] = AfterPost(@, out)]
              /\ pc' = [pc EXCEPT ![c] = Continue("an_post", out.err)]
    /\ UNCHANGED fixedByAnalyze

AnalyzeThemesBegin(c) ==
    /\ pc[c] = "an_themes"
    /\ LET b == ExtractThemesBegin(an[c].preReviews, an[c].postReviews)
       IN  /\ calls' = [calls EXCEPT ![c] =
                          Append(@, Call("ExtractThemes",
                                         [preReviews |-> an[c].preReviews,
                                          postReviews |-> an[c].postReviews], b))]
           /\ pc' = [pc EXCEPT ![c] = "an_themes_wait"]
    /\ UNCHANGED <<an, fixedByAnalyze>>

AnalyzeThemesEnd(c) ==
    /\ pc[c] = "an_themes_wait"
    /\ \E x \in provider :
          LET out == ExtractThemesEnd(x)
          IN  /\ calls' = [calls EXCEPT ![c] = Returned(@, out)]
              /\ an' = [an EXCEPT ![c] = AfterThemes(@, out)]
              /\ pc' = [pc EXCEPT ![c] = Continue("an_themes", out.err)]
    /\ UNCHANGED fixedByAnalyze

AnalyzeImpactBegin(c) ==
    /\ pc[c] = "an_impact"
    /\ LET b == GenerateImpactSummaryBegin(preCollection(an[c]), postCollection(an[c]),
                                           an[c].comparison[1])
       IN  /\ calls' = [calls EXCEPT ![c] =
                          Append(@, Call("GenerateImpactSummary",
                                         [pre |-> preCollection(an[c]),
                                          post |-> postCollection(an[c]),
                                          comparison |-> an[c].comparison[1]], b))]
           /\ pc' = [pc EXCEPT ![c] = "an_impact_wait"]
    /\ UNCHANGED <<an, fixedByAnalyze>>

AnalyzeImpactEnd(c) ==
    /\ pc[c] = "an_impact_wait"
    /\ \E x \in provider, at \in Timestamps :
          LET out == GenerateImpactSummaryEnd(x)
          IN  /\ calls' = [calls EXCEPT ![c] = Returned(@, out)]
              /\ an' = [an EXCEPT ![c] = AfterImpact(@, out, at)]
              /\ pc' = [pc EXCEPT ![c] = Continue("an_impact", out.err)]
    /\ UNCHANGED fixedByAnalyze

AnalyzeStep(c) ==
    \/ AnalyzePreBegin(c)
    \/ AnalyzePreEnd(c)
    \/ AnalyzePostBegin(c)
    \/ AnalyzePostEnd(c)
    \/ AnalyzeThemesBegin(c)
    \/ AnalyzeThemesEnd(c)
    \/ AnalyzeImpactBegin(c)
    \/ AnalyzeImpactEnd(c)

(***************************************************************************)
(* The provider's possible answers.                                        *)
(***************************************************************************)
FencedJSON(doc) == FenceJSON \o <<"\n", doc, "\n">> \o Fence

ReplyContents ==
    {<<"S", "u", "r", "e", "!">>,
     FencedJSON("D_sentiments_a"), <<"D_sentiments_b">>,
     <<" ">> \o Fence \o <<"D_themes">> \o Fence,
     <<"D_impact", "\n">>,
     <<"D_null">>}

FailedExchanges ==
    {Exchange(TRUE, FALSE, 0, <<>>, FALSE, <<>>, <<>>),
     Exchange(FALSE, TRUE, 200, <<>>, FALSE, <<>>, <<>>),
     Exchange(FALSE, FALSE, 500, <<"o", "o", "p", "s">>, FALSE, <<>>, <<>>),
     Exchange(FALSE, FALSE, 200, <<"<", "h", "t", "m", "l", ">">>, FALSE, <<>>, <<>>),
     Exchange(FALSE, FALSE, 200, <<>>, TRUE, <<"rate limit reached">>, <<>>),
     Exchange(FALSE, FALSE, 200, <<>>, TRUE, <<>>, <<>>)}

Completion(content) == Exchange(FALSE, FALSE, 200, <<>>, TRUE, <<>>, <<content>>)

ProviderExchanges == FailedExchanges \cup {Completion(c) : c \in ReplyContents}

(***************************************************************************)
(* One run of Analyze on arguments drawn from bounded sets.                *)
(***************************************************************************)
RunReviews == {Review("r1", 5), Review("r2", 1)}

RunReviewSeqs == SeqsUpTo(RunReviews, MaxReviews)

InitAnalyze ==
    \E preReviews \in RunReviewSeqs, postReviews \in RunReviewSeqs :
        /\ h = [preReviews |-> <<>>, postReviews |-> <<>>]
        /\ pc = [c \in Clients |-> IF c = "c1" THEN "an_pre" ELSE "idle"]
        /\ req = [c \in Clients |-> NoRequest]
        /\ an = [c \in Clients |-> IF c = "c1" THEN Locals(preReviews, postReviews)
                                   ELSE NoLocals]
        /\ calls = [c \in Clients |-> <<>>]
        /\ resp = [c \in Clients |-> NoResponse]
        /\ uploaded = [c \in Clients |-> <<>>]
        /\ provider = ProviderExchanges
        /\ fnName = "Analyze"
        /\ fnIn = <<>>
        /\ fnOut = <<>>

NextAnalyze == \E c \in Clients : AnalyzeStep(c)

SpecAnalyze == InitAnalyze /\ [][NextAnalyze]_vars

(***************************************************************************)
(* CSVReviewParser.ParseCSV.  A CSV input is the sequence of the records   *)
(* encoding/csv finds in it: fields are the record's cells, bad says that  *)
(* the record's text is not valid CSV (a stray quote), line is the line of *)
(* the input on which the record starts.  A cell is a string.              *)
(***************************************************************************)
Row(fields, line) == [fields |-> fields, bad |-> FALSE, line |-> line]

BadRow(line) == [fields |-> <<>>, bad |-> TRUE, line |-> line]

\* csvReader.Read() for the k-th record; want is the field count of the first record
\* (reader.FieldsPerRecord once set), -1 before it is read
csvRead(file, k, want) ==
    IF k > Len(file)
    THEN [eof |-> TRUE, record |-> <<>>, err |-> Error(<<"EOF">>, <<>>)]
    ELSE IF file[k].bad
    THEN [eof |-> FALSE, record |-> <<>>,
          err |-> Error(<<"parse error on line", ToString(file[k].line),
                          "bare quote in field">>, <<>>)]
    ELSE IF want >= 0 /\ Len(file[k].fields) # want
    THEN [eof |-> FALSE, record |-> file[k].fields,
          err |-> Error(<<"record on line", ToString(file[k].line),
                          "wrong number of fields">>, <<>>)]
    ELSE [eof |-> FALSE, record |-> file[k].fields, err |-> NoError]

\* "for i, col := range header { colIndex[col] = i }" (1-based here)
ColIndex(header) ==
    [col \in Range(header) |->
        CHOOSE i \in DOMAIN header :
            header[i] = col /\ \A j \in DOMAIN header : header[j] = col => j <= i]

\* the decimal texts strconv.Atoi accepts among the cells of the model
Numerals ==
    {<<"0", 0>>, <<"1", 1>>, <<"4", 4>>, <<"5", 5>>, <<"-3", -3>>, <<"+2", 2>>}

Atoi(cell) ==
    IF \E n \in Numerals : n[1] = cell
    THEN [ok |-> TRUE, value |-> (CHOOSE n \in Numerals : n[1] = cell)[2]]
    ELSE [ok |-> FALSE, value |-> 0]

\* "if idx, ok := colIndex[name]; ok && idx < len(record)"
HasCell(cols, record, name) == name \in DOMAIN cols /\ cols[name] <= Len(record)

TextCell(cols, record, name) ==
    IF HasCell(cols, record, name) THEN record[cols[name]] ELSE ""

\* Mutant: a rating cell that is not an integer fails the conversion loudly (-1).
RatingCellMarked(cols, record) ==
    IF HasCell(cols, record, "rating")
    THEN IF Atoi(record[cols["rating"]]).ok THEN Atoi(record[cols["rating"]]).value ELSE -1
    ELSE 0

RatingCell(cols, record) ==
    IF HasCell(cols, record, "rating") /\ Atoi(record[cols["rating"]]).ok
    THEN Atoi(record[cols["rating"]]).value
    ELSE 0

ReviewOfRecord(cols, record) ==
    [ID |-> TextCell(cols, record, "id"),
     Date |-> TextCell(cols, record, "date"),
     UserID |-> TextCell(cols, record, "user_id"),
     ReviewText |-> TextCell(cols, record, "review_text"),
     Rating |-> RatingCell(cols, record),
     Source |-> TextCell(cols, record, "source")]

\* Mutant: the loop puts each review in front of the ones read before it.
RECURSIVE ParseRowsPrepend(_, _, _, _, _, _)
ParseRowsPrepend(file, k, cols, want, reviews, lineNum) ==
    LET r == csvRead(file, k, want)
    IN  IF r.eof THEN [reviews |-> reviews, err |-> NoError]
        ELSE IF r.err # NoError
        THEN [reviews |-> <<>>,
              err |-> Error(<<"error reading line", ToString(lineNum + 1)>>
                              \o r.err.chain, <<>>)]
        ELSE ParseRowsPrepend(file, k + 1, cols, want,
                              <<ReviewOfRecord(cols, r.record)>> \o reviews, lineNum + 1)

\* the loop of ParseCSV from its k-th Read on, lineNum as it is before "lineNum++"
RECURSIVE ParseRows(_, _, _, _, _, _)
ParseRows(file, k, cols, want, reviews, lineNum) ==
    LET r == csvRead(file, k, want)
    IN  IF r.eof THEN [reviews |-> reviews, err |-> NoError]
        ELSE IF r.err # NoError
        THEN [reviews |-> <<>>,
              err |-> Error(<<"error reading line", ToString(lineNum + 1)>>
                              \o r.err.chain, <<>>)]
        ELSE ParseRows(file, k + 1, cols, want,
                       Append(reviews, ReviewOfRecord(cols, r.record)), lineNum + 1)

\* Mutant: an input without data rows is refused like a missing header.
ParseCSVNeedsRows(file) ==
    LET header == csvRead(file, 1, -1)
    IN  IF header.err # NoError \/ Len(file) = 1
        THEN [reviews |-> <<>>, err |-> WrapError("failed to read CSV header", header.err)]
        ELSE ParseRows(file, 2, ColIndex(header.record), Len(header.record), <<>>, 1)

ParseCSV(file) ==
    LET header == csvRead(file, 1, -1)
    IN  IF header.err # NoError
        THEN [reviews |-> <<>>, err |-> WrapError("failed to read CSV header", header.err)]
        ELSE ParseRows(file, 2, ColIndex(header.record), Len(header.record), <<>>, 1)

(***************************************************************************)
(* APIHandler.HandleUpload and APIHandler.HandleAnalyze.  net/http serves  *)
(* every request in its own goroutine and the handlers take no lock, so    *)
(* the steps of concurrent requests interleave at each access to           *)
(* h.preReviews and h.postReviews.  Each access to one field is one step   *)
(* (a read sees the value before or after a concurrent write; a slice      *)
(* header torn between two writes is not modelled).                        *)
(***************************************************************************)
Response(code, error, details, body) ==
    [code |-> code, error |-> error, details |-> details, body |-> body]

\* respondError(w, status, message, details)
respondError(status, message, details) == Response(status, message, details, <<>>)

\* respondJSON(w, status, data)
respondJSON(status, data) == Response(status, "", NoError, <<data>>)

UploadRequest(method, formOK, preLaunch, postLaunch) ==
    [kind |-> "upload", method |-> method, formOK |-> formOK,
     preLaunch |-> preLaunch, postLaunch |-> postLaunch, preCount |-> 0]

AnalyzeRequest(method) ==
    [kind |-> "analyze", method |-> method, formOK |-> TRUE,
     preLaunch |-> <<>>, postLaunch |-> <<>>, preCount |-> 0]

fixedByUpload == <<an, calls, provider, fnVars>>

\* HandleUpload up to r.FormFile("preLaunch")
HandleUploadBegin(c, r) ==
    /\ pc[c] = "idle"
    /\ r.kind = "upload"
    /\ req' = [req EXCEPT ![c] = r]
    /\ IF r.method # "POST"
       THEN /\ resp' = [resp EXCEPT ![c] = respondError(405, "Method not allowed", NoError)]
            /\ pc' = pc
       ELSE IF ~r.formOK
       THEN /\ resp' = [resp EXCEPT ![c] =
                          respondError(400, "Failed to parse form",
                                       Error(<<"multipart">>, <<>>))]
            /\ pc' = pc
       ELSE IF r.preLaunch = <<>>
       THEN /\ resp' = [resp EXCEPT ![c] =
                          respondError(400, "Pre-launch file is required",
                                       Error(<<"http: no such file">>, <<>>))]
            /\ pc' = pc
       ELSE /\ resp' = [resp EXCEPT ![c] = NoResponse]
            /\ pc' = [pc EXCEPT ![c] = "up_pre"]
    /\ uploaded' = [uploaded EXCEPT ![c] = <<>>]
    /\ UNCHANGED <<h, fixedByUpload>>

\* "h.preReviews, err = h.parser.ParseCSV(preLaunchFile)" up to r.FormFile("postLaunch")
UploadParsePre(c) ==
    /\ pc[c] = "up_pre"
    /\ LET p == ParseCSV(req[c].preLaunch[1])
       IN  /\ h' = [h EXCEPT !.preReviews = p.reviews]
           /\ IF p.err # NoError
              THEN /\ resp' = [resp EXCEPT ![c] =
                                 respondError(400, "Failed to parse pre-launch CSV", p.err)]
                   /\ pc' = [pc EXCEPT ![c] = "idle"]
              ELSE IF req[c].postLaunch = <<>>
              THEN /\ resp' = [resp EXCEPT ![c] =
                                 respondError(400, "Post-launch file is required",
                                              Error(<<"http: no such file">>, <<>>))]
                   /\ pc' = [pc EXCEPT ![c] = "idle"]
              ELSE /\ resp' = resp
                   /\ pc' = [pc EXCEPT ![c] = "up_post"]
    /\ UNCHANGED <<req, uploaded, fixedByUpload>>

\* "h.postReviews, err = h.parser.ParseCSV(postLaunchFile)"
UploadParsePost(c) ==
    /\ pc[c] = "up_post"
    /\ LET p == ParseCSV(req[c].postLaunch[1])
       IN  /\ h' = [h EXCEPT !.postReviews = p.reviews]
           /\ IF p.err # NoError
              THEN /\ resp' = [resp EXCEPT ![c] =
                                 respondError(400, "Failed to parse post-launch CSV", p.err)]
                   /\ pc' = [pc EXCEPT ![c] = "idle"]
              ELSE /\ resp' = resp
                   /\ pc' = [pc EXCEPT ![c] = "up_count_pre"]
    /\ UNCHANGED <<req, uploaded, fixedByUpload>>

\* "PreLaunchCount: len(h.preReviews)"
UploadCountPre(c) ==
    /\ pc[c] = "up_count_pre"
    /\ req' = [req EXCEPT ![c].preCount = Len(h.preReviews)]
    /\ pc' = [pc EXCEPT ![c] = "up_count_post"]
    /\ UNCHANGED <<h, resp, uploaded, fixedByUpload>>

\* "PostLaunchCount: len(h.postReviews)" and respondJSON(w, http.StatusOK, response)
UploadRespond(c) ==
    /\ pc[c] = "up_count_post"
    /\ resp' = [resp EXCEPT ![c] =
                  respondJSON(200, [Success |-> TRUE,
                                    PreLaunchCount |-> req[c].preCount,
                                    PostLaunchCount |-> Len(h.postReviews),
                                    Message |-> "Files uploaded successfully. Ready for analysis."])]
    /\ uploaded' = [uploaded EXCEPT ![c] =
                      << <<ParseCSV(req[c].preLaunch[1]).reviews,
                           ParseCSV(req[c].postLaunch[1]).reviews>> >>]
    /\ pc' = [pc EXCEPT ![c] = "idle"]
    /\ UNCHANGED <<h, req, fixedByUpload>>

fixedByHandleAnalyze == <<h, uploaded, provider, fnVars>>

\* HandleAnalyze: the method check
HandleAnalyzeBegin(c, r) ==
    /\ pc[c] = "idle"
    /\ r.kind = "analyze"
    /\ req' = [req EXCEPT ![c] = r]
    /\ IF r.method # "POST"
       THEN /\ resp' = [resp EXCEPT ![c] = respondError(405, "Method not allowed", NoError)]
            /\ pc' = pc
       ELSE /\ resp' = [resp EXCEPT ![c] = NoResponse]
            /\ pc' = [pc EXCEPT ![c] = "ha_check_pre"]
    /\ UNCHANGED <<an, calls, fixedByHandleAnalyze>>

\* "len(h.preReviews) == 0 ||"
AnalyzeCheckPre(c) ==
    /\ pc[c] = "ha_check_pre"
    /\ IF Len(h.preReviews) = 0
       THEN /\ resp' = [resp EXCEPT ![c] =
                          respondError(400, "Please upload CSV files first", NoError)]
            /\ pc' = [pc EXCEPT ![c] = "idle"]
       ELSE /\ resp' = resp
            /\ pc' = [pc EXCEPT ![c] = "ha_check_post"]
    /\ UNCHANGED <<req, an, calls, fixedByHandleAnalyze>>

\* "|| len(h.postReviews) == 0"
AnalyzeCheckPost(c) ==
    /\ pc[c] = "ha_check_post"
    /\ IF Len(h.postReviews) = 0
       THEN /\ resp' = [resp EXCEPT ![c] =
                          respondError(400, "Please upload CSV files first", NoError)]
            /\ pc' = [pc EXCEPT ![c] = "idle"]
       ELSE /\ resp' = resp
            /\ pc' = [pc EXCEPT ![c] = "ha_arg_pre"]
    /\ UNCHANGED <<req, an, calls, fixedByHandleAnalyze>>

\* the first argument of "h.analysisService.Analyze(h.preReviews, h.postReviews)"
AnalyzeArgPre(c) ==
    /\ pc[c] = "ha_arg_pre"
    /\ an' = [an EXCEPT ![c] = Locals(h.preReviews, <<>>)]
    /\ pc' = [pc EXCEPT ![c] = "ha_arg_post"]
    /\ UNCHANGED <<req, resp, calls, fixedByHandleAnalyze>>

\* its second argument, and the call
AnalyzeArgPost(c) ==
    /\ pc[c] = "ha_arg_post"
    /\ an' = [an EXCEPT ![c] = Locals(@.preReviews, h.postReviews)]
    /\ calls' = [calls EXCEPT ![c] = <<>>]
    /\ pc' = [pc EXCEPT ![c] = "an_pre"]
    /\ UNCHANGED <<req, resp, fixedByHandleAnalyze>>

\* HandleAnalyze after Analyze returned
HandleAnalyzeRespond(c) ==
    /\ pc[c] = "an_ret"
    /\ req[c].kind = "analyze"
    /\ resp' = [resp EXCEPT ![c] =
                  IF an[c].ret[1].err # NoError
                  THEN respondError(500, "Analysis failed", an[c].ret[1].err)
                  ELSE respondJSON(200, an[c].ret[1].result[1])]
    /\ an' = [an EXCEPT ![c] = NoLocals]
    /\ calls' = [calls EXCEPT ![c] = <<>>]
    /\ pc' = [pc EXCEPT ![c] = "idle"]
    /\ UNCHANGED <<req, fixedByHandleAnalyze>>

(***************************************************************************)
(* The server with its clients.                                            *)
(***************************************************************************)
Header == <<"id", "rating", "review_text">>

FileOf(id, rating) == <<Row(Header, 1), Row(<<id, rating, "text">>, 2)>>

\* the two files of each client: their reviews carry the client's own ids
PreFile(c) == IF c = "c1" THEN FileOf("a1", "5") ELSE FileOf("b1", "4")

PostFile(c) == IF c = "c1" THEN FileOf("a2", "1") ELSE FileOf("b2", "5")

HeaderOnlyFile == <<Row(Header, 1)>>

MalformedFile == <<Row(Header, 1), Row(<<"x9">>, 2)>>

UploadRequests(c) ==
    {UploadRequest("POST", TRUE, <<PreFile(c)>>, <<PostFile(c)>>),
     UploadRequest("POST", TRUE, <<MalformedFile>>, <<PostFile(c)>>),
     UploadRequest("POST", TRUE, <<PreFile(c)>>, <<MalformedFile>>),
     UploadRequest("POST", TRUE, <<HeaderOnlyFile>>, <<PostFile(c)>>),
     UploadRequest("POST", TRUE, <<>>, <<PostFile(c)>>),
     UploadRequest("POST", TRUE, <<PreFile(c)>>, <<>>),
     UploadRequest("POST", FALSE, <<>>, <<>>),
     UploadRequest("GET", TRUE, <<>>, <<>>)}

AnalyzeRequests == {AnalyzeRequest("POST"), AnalyzeRequest("GET")}

\* the provider of the server specification: a transport failure, or a completion
\* that every operation can decode
ServerExchanges ==
    {Exchange(TRUE, FALSE, 0, <<>>, FALSE, <<>>, <<>>), Completion(<<"D_null">>)}

Init ==
    /\ h = [preReviews |-> <<>>, postReviews |-> <<>>]
    /\ pc = [c \in Clients |-> "idle"]
    /\ req = [c \in Clients |-> NoRequest]
    /\ an = [c \in Clients |-> NoLocals]
    /\ calls = [c \in Clients |-> <<>>]
    /\ resp = [c \in Clients |-> NoResponse]
    /\ uploaded = [c \in Clients |-> <<>>]
    /\ provider = ServerExchanges
    /\ fnName = "server"
    /\ fnIn = <<>>
    /\ fnOut = <<>>

Next ==
    \E c \in Clients :
        \/ \E r \in UploadRequests(c) : HandleUploadBegin(c, r)
        \/ UploadParsePre(c)
        \/ UploadParsePost(c)
        \/ UploadCountPre(c)
        \/ UploadRespond(c)
        \/ \E r \in AnalyzeRequests : HandleAnalyzeBegin(c, r)
        \/ AnalyzeCheckPre(c)
        \/ AnalyzeCheckPost(c)
        \/ AnalyzeArgPre(c)
        \/ AnalyzeArgPost(c)
        \/ AnalyzeStep(c)
        \/ HandleAnalyzeRespond(c)

Spec == Init /\ [][Next]_vars

(***************************************************************************)
(* Pure-function specifications: Init draws the arguments from bounded     *)
(* sets, the single action applies the function.                           *)
(***************************************************************************)
SentimentLabels == {"positive", "negative", "neutral", "Positive", "", "mixed"}

SampleRatings == {-1, 0, 4, 5}

SummaryInputs ==
    [sentiments : SeqsUpTo({SentimentResult("r1", l) : l \in SentimentLabels},
                           MaxSentiments),
     reviews : SeqsUpTo({Review("r1", r) : r \in SampleRatings}, MaxReviews)]

InitSummary ==
    /\ ServiceIdle
    /\ fnName = "calculateSentimentSummary"
    /\ fnIn \in SummaryInputs
    /\ fnOut = <<>>

CallSummary ==
    /\ fnName = "calculateSentimentSummary"
    /\ fnOut = <<>>
    /\ fnOut' = <<calculateSentimentSummary(fnIn.sentiments, fnIn.reviews)>>
    /\ UNCHANGED <<fnName, fnIn, svcVars>>

SpecSummary == InitSummary /\ [][CallSummary]_vars

ShiftInputs ==
    LET Summaries == {SentimentSummary(p, n, u, FloatZero) :
                        p \in 0..MaxCount, n \in 0..MaxCount, u \in 0..MaxCount}
    IN  [pre : Summaries, post : Summaries]

InitShift ==
    /\ ServiceIdle
    /\ fnName = "calculateSentimentShift"
    /\ fnIn \in ShiftInputs
    /\ fnOut = <<>>

CallShift ==
    /\ fnName = "calculateSentimentShift"
    /\ fnOut = <<>>
    /\ fnOut' = <<calculateSentimentShift(fnIn.pre, fnIn.post)>>
    /\ UNCHANGED <<fnName, fnIn, svcVars>>

SpecShift == InitShift /\ [][CallShift]_vars

SummaryReturned == fnName = "calculateSentimentSummary" /\ fnOut # <<>>

ShiftReturned == fnName = "calculateSentimentShift" /\ fnOut # <<>>

Total(summary) == summary.Positive + summary.Negative + summary.Neutral

\* the indices of a sentiment sequence whose label is in a set
Labelled(sentiments, labels) ==
    {i \in DOMAIN sentiments : sentiments[i].Sentiment \in labels}

\* the sum of the ratings, by induction on the index set
RECURSIVE RatingSum(_, _)
RatingSum(reviews, idx) ==
    IF idx = {} THEN 0
    ELSE LET i == CHOOSE j \in idx : TRUE
         IN  reviews[i].Rating + RatingSum(reviews, idx \ {i})

\* C5: calculateSentimentShift returns 0 whenever the pre total or the post total is
\* 0; otherwise it returns post.positive/postTotal*100 - pre.positive/preTotal*100,
\* each rate over its own side's total, and the result lies in [-100, 100].
C5_ShiftValue ==
    ShiftReturned =>
        LET pre == fnIn.pre
            post == fnIn.post
            out == fnOut[1]
        IN  /\ out.den > 0
            /\ (Total(pre) = 0 \/ Total(post) = 0) => out.num = 0
            /\ (Total(pre) > 0 /\ Total(post) > 0) =>
                  out.num * Total(pre) * Total(post)
                    = out.den * 100 * (post.Positive * Total(pre)
                                        - pre.Positive * Total(post))
            /\ FloatLe(FloatOfInt(-100), out)
            /\ FloatLe(out, FloatOfInt(100))

\* C5 witness: a shift was computed for two non-empty sides of different totals.
C5_Witness ==
    /\ ShiftReturned
    /\ Total(fnIn.pre) > 0
    /\ Total(fnIn.post) > Total(fnIn.pre)
    /\ fnIn.pre.Positive > 0
    /\ fnIn.post.Positive > 0
    /\ fnOut[1].num # 0

\* C6: positive + negative + neutral of the returned summary equals the number of
\* sentiment results, whatever the number of reviews.
C6_CountsSumToResults ==
    SummaryReturned => Total(fnOut[1]) = Len(fnIn.sentiments)

\* C6 witness: a summary of more results than reviews, one of them with an unknown
\* label.
C6_Witness ==
    /\ SummaryReturned
    /\ Len(fnIn.sentiments) > Len(fnIn.reviews)
    /\ Len(fnIn.reviews) > 0
    /\ Labelled(fnIn.sentiments, {"mixed"}) # {}

\* C7: the average rating is the sum of the ratings of the reviews divided by their
\* number, is 0 for an empty review sequence (all counts 0 too when the results are
\* empty as well), and is the same for every sentiment sequence.
C7_AverageRating ==
    SummaryReturned =>
        LET out == fnOut[1]
            n == Len(fnIn.reviews)
        IN  /\ n > 0 =>
                  /\ out.Average.den > 0
                  /\ out.Average.num * n
                        = out.Average.den * RatingSum(fnIn.reviews, 1..n)
            /\ n = 0 => out.Average = FloatZero
            /\ (n = 0 /\ fnIn.sentiments = <<>>) => out = ZeroSummary
            /\ out.Average = calculateSentimentSummary(<<>>, fnIn.reviews).Average

\* C7 witness: an average over two reviews whose sum is odd, with results present.
C7_Witness ==
    /\ SummaryReturned
    /\ Len(fnIn.reviews) = 2
    /\ fnIn.reviews[1].Rating + fnIn.reviews[2].Rating = 9
    /\ Len(fnIn.sentiments) = 1

\* C8: a result counts as positive exactly when its label is "positive", as negative
\* exactly when it is "negative", and as neutral for every other label; each result
\* is counted once.
C8_Buckets ==
    SummaryReturned =>
        LET out == fnOut[1]
            s == fnIn.sentiments
        IN  /\ out.Positive = Cardinality(Labelled(s, {"positive"}))
            /\ out.Negative = Cardinality(Labelled(s, {"negative"}))
            /\ out.Neutral
                 = Cardinality(Labelled(s, SentimentLabels \ {"positive", "negative"}))

\* C8 witness: a summary over an empty label, a differently cased label and
\* "positive".
C8_Witness ==
    /\ SummaryReturned
    /\ Labelled(fnIn.sentiments, {""}) # {}
    /\ Labelled(fnIn.sentiments, {"Positive"}) # {}
    /\ Labelled(fnIn.sentiments, {"positive"}) # {}


(***************************************************************************)
(* cleanJSONResponse on fenced responses.                                  *)
(***************************************************************************)
Blanks == SeqsUpTo({" ", "\n", "\t"}, MaxPad)

\* JSON documents: they neither begin nor end with a blank or a fence
Contents == {<<"[", "]">>, <<"{", "}">>, <<"[", "1", "]">>, <<"n", "u", "l", "l">>}

\* c between a leading and a trailing fence marker, blanks around each
Wrap(lead, c, b1, b2, b3, b4) == b1 \o lead \o b2 \o c \o b3 \o Fence \o b4

CleanInputs ==
    {[content |-> c, inner |-> b3, response |-> Wrap(lead, c, b1, b2, b3, b4)] :
        lead \in {Fence, FenceJSON}, c \in Contents,
        b1 \in Blanks, b2 \in Blanks, b3 \in Blanks, b4 \in Blanks}

InitClean ==
    /\ ServiceIdle
    /\ fnName = "cleanJSONResponse"
    /\ fnIn \in CleanInputs
    /\ fnOut = <<>>

CallClean ==
    /\ fnName = "cleanJSONResponse"
    /\ fnOut = <<>>
    /\ fnOut' = <<cleanJSONResponse(fnIn.response)>>
    /\ UNCHANGED <<fnName, fnIn, svcVars>>

SpecClean == InitClean /\ [][CallClean]_vars

CleanReturned == fnName = "cleanJSONResponse" /\ fnOut # <<>>

\* C10: sanitizing c wrapped in a leading fence marker and a trailing fence marker,
\* with arbitrary blanks before, after and between the markers and c, yields c.
C10_RoundTrip == CleanReturned => fnOut[1] = fnIn.content


(***************************************************************************)
(* One run of Analyze: C1, C2, C4, C9.                                     *)
(***************************************************************************)
StageContexts ==
    <<"failed to analyze pre-launch sentiments",
      "failed to analyze post-launch sentiments",
      "failed to extract themes",
      "failed to generate impact summary">>

StageOps ==
    <<"AnalyzeSentiments", "AnalyzeSentiments", "ExtractThemes",
      "GenerateImpactSummary">>

FailedCalls(log) == {i \in DOMAIN log : log[i].out.err # NoError}

CallsOf(log, op) == {i \in DOMAIN log : log[i].op = op}

\* C1: if a gateway stage returns an error, Analyze returns a nil result and one
\* error made of the failed stage's name and the gateway's error unchanged; a result
\* is returned only when all four stages succeeded.
C1_FailureDiscardsRun ==
    \A c \in Clients :
        LET log == calls[c]
            failed == FailedCalls(log)
        IN  /\ failed # {} =>
                  /\ pc[c] = "an_ret"
                  /\ an[c].ret # <<>>
                  /\ an[c].ret[1].result = <<>>
                  /\ \E i \in failed :
                        /\ failed = {i}
                        /\ an[c].ret[1].err.chain
                             = <<StageContexts[i]>> \o log[i].out.err.chain
                        /\ an[c].ret[1].err.response = log[i].out.err.response
            /\ (an[c].ret # <<>> /\ an[c].ret[1].result # <<>>) =>
                  /\ an[c].ret[1].err = NoError
                  /\ Len(log) = 4
                  /\ \A i \in DOMAIN log :
                        log[i].state = "returned" /\ log[i].out.err = NoError
            /\ an[c].ret # <<>> =>
                  (an[c].ret[1].result = <<>>) # (an[c].ret[1].err = NoError)

\* C1 witness: a run whose theme extraction failed on an unparsable reply.
C1_Witness ==
    \E c \in Clients :
        /\ pc[c] = "an_ret"
        /\ Len(calls[c]) = 3
        /\ calls[c][3].out.err.response # <<>>
        /\ an[c].ret[1].result = <<>>

\* C2: the gateway operations start in the order pre-launch scoring, post-launch
\* scoring, theme extraction, impact summary, none before the previous one returned,
\* and the impact-summary call receives the collections, summaries, shift and themes
\* computed in this run.
C2_StageOrder ==
    \A c \in Clients :
        LET log == calls[c]
            l == an[c]
        IN  /\ Len(log) <= 4
            /\ \A i \in DOMAIN log :
                  /\ log[i].op = StageOps[i]
                  /\ i < Len(log) => log[i].state = "returned"
            /\ Len(log) >= 1 => log[1].args.reviews = l.preReviews
            /\ Len(log) >= 2 => log[2].args.reviews = l.postReviews
            /\ Len(log) >= 3 =>
                  log[3].args = [preReviews |-> l.preReviews,
                                 postReviews |-> l.postReviews]
            /\ Len(log) = 4 =>
                  LET pre == calculateSentimentSummary(log[1].out.value, l.preReviews)
                      post == calculateSentimentSummary(log[2].out.value, l.postReviews)
                  IN  log[4].args =
                        [pre |-> ReviewCollection(l.preReviews, "pre_launch"),
                         post |-> ReviewCollection(l.postReviews, "post_launch"),
                         comparison |->
                            ComparisonResult(pre, post,
                                             calculateSentimentShift(pre, post),
                                             log[3].out.value)]

\* C2 witness: the impact-summary request of a run with a non-zero shift is in flight.
C2_Witness ==
    \E c \in Clients :
        /\ pc[c] = "an_impact_wait"
        /\ Len(calls[c]) = 4
        /\ calls[c][4].state = "inflight"
        /\ calls[c][4].args.comparison.SentimentShift.num # 0
        /\ calls[c][4].args.comparison.Themes # <<>>

\* C4: in one run sentiment scoring is called at most once per collection, theme
\* extraction and impact summary at most once each, every call sends at most one
\* provider request, and no call follows a failed one.
C4_NoRetry ==
    \A c \in Clients :
        LET log == calls[c]
        IN  /\ Len(log) <= 4
            /\ Cardinality(CallsOf(log, "AnalyzeSentiments")) <= 2
            /\ Cardinality(CallsOf(log, "ExtractThemes")) <= 1
            /\ Cardinality(CallsOf(log, "GenerateImpactSummary")) <= 1
            /\ \A i \in DOMAIN log : Len(log[i].sent) <= 1
            /\ \A i \in FailedCalls(log) : i = Len(log) /\ pc[c] = "an_ret"

\* C4 witness: a run ended by the failure of its post-launch scoring request.
C4_Witness ==
    \E c \in Clients :
        /\ Len(calls[c]) = 2
        /\ calls[c][2].sent # <<>>
        /\ calls[c][2].out.err # NoError
        /\ pc[c] = "an_ret"

\* C9: sentiment scoring of an empty review sequence returns an empty result set and
\* no error and sends no provider request, and the run goes on to the next stage.
C9_EmptyShortCircuit ==
    \A c \in Clients :
        LET log == calls[c]
        IN  \A i \in DOMAIN log :
               (log[i].op = "AnalyzeSentiments" /\ log[i].args.reviews = <<>>) =>
                  /\ log[i].sent = <<>>
                  /\ log[i].state = "returned"
                  /\ log[i].out = Outcome(<<>>, NoError)
                  /\ i = Len(log) => pc[c] = <<"an_post", "an_themes">>[i]

\* C9 witness: a run with no pre-launch reviews whose post-launch scoring request is
\* in flight.
C9_Witness ==
    \E c \in Clients :
        /\ an[c].preReviews = <<>>
        /\ an[c].postReviews # <<>>
        /\ Len(calls[c]) = 2
        /\ calls[c][1].sent = <<>>
        /\ calls[c][2].state = "inflight"


(***************************************************************************)
(* Concurrent requests: C3.                                                *)
(***************************************************************************)
RunPcs == {"an_pre", "an_pre_wait", "an_post", "an_post_wait", "an_themes",
           "an_themes_wait", "an_impact", "an_impact_wait", "an_ret"}

\* the review sequences that the files of client c parse to
OwnSequences(c) ==
    {ParseCSV(r.preLaunch[1]).reviews : r \in {q \in UploadRequests(c) : q.preLaunch # <<>>}}
    \cup
    {ParseCSV(r.postLaunch[1]).reviews :
        r \in {q \in UploadRequests(c) : q.postLaunch # <<>>}}

\* C3: under every interleaving of HandleUpload and HandleAnalyze, the analysis run
\* of a client operates on the pre/post pair of its own request: once the client has
\* uploaded, its run analyses only review sequences parsed from its own files, never
\* sequences stored by another client's upload.
C3_RunUsesOwnPair ==
    \A c \in Clients :
        (pc[c] \in RunPcs /\ uploaded[c] # <<>>) =>
            /\ an[c].preReviews \in OwnSequences(c)
            /\ an[c].postReviews \in OwnSequences(c)

(***************************************************************************)
(* ParseCSV on inputs drawn from bounded sets: a header, then up to        *)
(* MaxRows records, each starting up to MaxBlank blank lines after the     *)
(* record before it (encoding/csv skips blank lines and counts them).      *)
(***************************************************************************)
MaxRows == 2

MaxBlank == 1

ParseHeaders ==
    {<<"id", "rating", "review_text">>, <<"rating", "id">>, <<"id", "notes", "rating">>,
     <<"date", "user_id", "source">>}

CellsFor(name) ==
    CASE name = "id" -> {"a1", "a2"}
      [] name = "rating" -> {"5", "4.5", ""}
      [] name = "notes" -> {"7", "zz"}
      [] name = "review_text" -> {"good"}
      [] name = "date" -> {"d1"}
      [] name = "user_id" -> {"u1"}
      [] OTHER -> {"web"}

WellFormedRows(header) ==
    {f \in [1..Len(header) -> UNION {CellsFor(header[i]) : i \in 1..Len(header)}] :
        \A i \in 1..Len(header) : f[i] \in CellsFor(header[i])}

\* a row with a field too few, one with a field too many, one that is not valid CSV
MalformedRows(header) ==
    {Row(SubSeq(header, 2, Len(header)), 0), Row(Append(header, "x"), 0), BadRow(0)}

RowsFor(header) == {Row(f, 0) : f \in WellFormedRows(header)} \cup MalformedRows(header)

RECURSIVE FilesOf(_, _)
FilesOf(header, n) ==
    IF n = 0 THEN {<<Row(header, 1)>>}
    ELSE LET shorter == FilesOf(header, n - 1)
         IN  shorter \cup
             {Append(f, [r EXCEPT !.line = f[Len(f)].line + 1 + g]) :
                 f \in {x \in shorter : Len(x) = n}, r \in RowsFor(header),
                 g \in 0..MaxBlank}

\* the empty input, an input whose first line is not valid CSV, and the files above
ParseInputs ==
    {<<>>, <<BadRow(1)>>} \cup UNION {FilesOf(header, MaxRows) : header \in ParseHeaders}

InitParse ==
    /\ ServiceIdle
    /\ fnName = "ParseCSV"
    /\ fnIn \in ParseInputs
    /\ fnOut = <<>>

CallParse ==
    /\ fnName = "ParseCSV"
    /\ fnOut = <<>>
    /\ fnOut' = <<ParseCSV(fnIn)>>
    /\ UNCHANGED <<fnName, fnIn, svcVars>>

SpecParse == InitParse /\ [][CallParse]_vars

ParseReturned == fnName = "ParseCSV" /\ fnOut # <<>>

RecognizedFields == {"id", "date", "user_id", "review_text", "rating", "source"}

\* the text field of a review that a column name fills
FieldOf(review, name) ==
    CASE name = "id" -> review.ID
      [] name = "date" -> review.Date
      [] name = "user_id" -> review.UserID
      [] name = "review_text" -> review.ReviewText
      [] OTHER -> review.Source

\* the position of a column name in a header that names it once
PositionOf(header, name) == CHOOSE p \in DOMAIN header : header[p] = name

\* a valid header followed by well-formed data rows only
WellFormedFile(file) ==
    /\ Len(file) >= 1
    /\ \A k \in DOMAIN file : ~file[k].bad /\ Len(file[k].fields) = Len(file[1].fields)

\* C11: for a valid header row followed by N well-formed data rows ParseCSV returns
\* no error and exactly N reviews, and the i-th review carries the cells of the i-th
\* data row (row order preserved).
C11_RowsInOrder ==
    (ParseReturned /\ WellFormedFile(fnIn)) =>
        LET out == fnOut[1]
            header == fnIn[1].fields
        IN  /\ out.err = NoError
            /\ Len(out.reviews) = Len(fnIn) - 1
            /\ \A i \in DOMAIN out.reviews :
                  \A name \in (RecognizedFields \ {"rating"}) \cap Range(header) :
                      FieldOf(out.reviews[i], name)
                        = fnIn[i + 1].fields[PositionOf(header, name)]

\* C11 witness: two well-formed rows with different ids, separated by a blank line,
\* were parsed into two reviews.
C11_Witness ==
    /\ ParseReturned
    /\ WellFormedFile(fnIn)
    /\ Len(fnIn) = 3
    /\ fnIn[3].line > fnIn[2].line + 1
    /\ Len(fnOut[1].reviews) = 2
    /\ fnOut[1].reviews[1].ID = "a1"
    /\ fnOut[1].reviews[2].ID = "a2"

\* the data rows of a file that encoding/csv refuses
Offending(file) ==
    {k \in 2..Len(file) : file[k].bad \/ Len(file[k].fields) # Len(file[1].fields)}

\* C12: when a data row is malformed ParseCSV returns an error and no reviews at all,
\* and the line number it reports is the 1-based line of the offending row in the
\* input, the header being line 1.
C12_MalformedRowLine ==
    (ParseReturned /\ Len(fnIn) >= 1 /\ ~fnIn[1].bad /\ Offending(fnIn) # {}) =>
        LET out == fnOut[1]
            k == CHOOSE j \in Offending(fnIn) : \A m \in Offending(fnIn) : j <= m
        IN  /\ out.err # NoError
            /\ out.reviews = <<>>
            /\ out.err.chain[1] = "error reading line"
            /\ out.err.chain[2] = ToString(fnIn[k].line)

\* C13: a header-only input gives an empty sequence and no error; an input whose
\* header cannot be read gives an error that is the header failure and carries no
\* "error reading line N" of a data row.
C13_HeaderOnlyAndNoHeader ==
    ParseReturned =>
        LET out == fnOut[1]
        IN  /\ (Len(fnIn) = 1 /\ ~fnIn[1].bad) =>
                  (out.reviews = <<>> /\ out.err = NoError)
            /\ (fnIn = <<>> \/ (Len(fnIn) >= 1 /\ fnIn[1].bad)) =>
                  /\ out.err # NoError
                  /\ out.reviews = <<>>
                  /\ out.err.chain[1] = "failed to read CSV header"
                  /\ "error reading line" \notin Range(out.err.chain)

\* C13 witness: a header-only input was parsed without error.
C13_Witness ==
    /\ ParseReturned
    /\ Len(fnIn) = 1
    /\ ~fnIn[1].bad
    /\ fnOut[1].err = NoError
    /\ fnOut[1].reviews = <<>>

\* the rating cells of the inputs that are not integers
NonIntegerCells == {"4.5", ""}

\* what a review must hold for a column name, from the cells of the recognized
\* columns alone
ExpectedText(header, fields, name) ==
    IF name \in Range(header) THEN fields[PositionOf(header, name)] ELSE ""

ExpectedRating(header, fields) ==
    IF "rating" \notin Range(header) THEN 0
    ELSE IF fields[PositionOf(header, "rating")] \in NonIntegerCells THEN 0
    ELSE IF fields[PositionOf(header, "rating")] = "5" THEN 5
    ELSE 0

\* C14: a recognized field whose column is absent from the header is at its zero
\* value in every review; a rating cell that is not an integer gives rating 0 while
\* the row is still emitted and the parse succeeds; each review is a function of the
\* cells of the recognized columns only, so an unrecognized column changes nothing.
C14_MissingAndUnknownColumns ==
    (ParseReturned /\ WellFormedFile(fnIn)) =>
        LET out == fnOut[1]
            header == fnIn[1].fields
        IN  /\ out.err = NoError
            /\ Len(out.reviews) = Len(fnIn) - 1
            /\ \A i \in DOMAIN out.reviews :
                  /\ \A name \in RecognizedFields \ {"rating"} :
                        FieldOf(out.reviews[i], name)
                          = ExpectedText(header, fnIn[i + 1].fields, name)
                  /\ out.reviews[i].Rating = ExpectedRating(header, fnIn[i + 1].fields)

\* C14 witness: a row with an unrecognized column and a rating that is not an
\* integer was emitted with rating 0 and empty date, next to a row rated 5.
C14_Witness ==
    /\ ParseReturned
    /\ Len(fnIn) = 3
    /\ fnIn[1].fields = <<"id", "notes", "rating">>
    /\ fnIn[2].fields = <<"a1", "zz", "4.5">>
    /\ fnIn[3].fields = <<"a2", "7", "5">>
    /\ fnOut[1].err = NoError
    /\ Len(fnOut[1].reviews) = 2
    /\ fnOut[1].reviews[1].Rating = 0
    /\ fnOut[1].reviews[1].Date = ""
    /\ fnOut[1].reviews[2].Rating = 5

(***************************************************************************)
(* callGroqAPI on exchanges drawn from bounded sets: the request fails, or *)
(* the body cannot be read, or a response arrives with a status and a body *)
(* that is not JSON or is a GroqResponse with or without "error" and with  *)
(* up to MaxChoices choices.                                               *)
(***************************************************************************)
MaxChoices == 2

Statuses == {200, 401, 429, 500}

ChoiceContents == {<<"D_null">>, <<"S", "u", "r", "e", "!">>, <<>>}

\* the raw body of a response, by what it parses to
BodyText(bodyOK, apiError) ==
    IF ~bodyOK THEN <<"<", "h", "t", "m", "l", ">">>
    ELSE IF apiError # <<>> THEN <<"{", "e", "r", "r", "o", "r", "}">>
    ELSE <<"{", "}">>

CallExchanges ==
    {Exchange(TRUE, FALSE, 0, <<>>, FALSE, <<>>, <<>>),
     Exchange(FALSE, TRUE, 200, <<>>, FALSE, <<>>, <<>>)}
    \cup {Exchange(FALSE, FALSE, st, BodyText(FALSE, <<>>), FALSE, <<>>, <<>>) :
             st \in Statuses}
    \cup {Exchange(FALSE, FALSE, st, BodyText(TRUE, e), TRUE, e, ch) :
             st \in Statuses, e \in {<<>>, <<"rate limit reached">>},
             ch \in SeqsUpTo(ChoiceContents, MaxChoices)}

InitCall ==
    /\ ServiceIdle
    /\ fnName = "callGroqAPI"
    /\ fnIn \in CallExchanges
    /\ fnOut = <<>>

CallGroq ==
    /\ fnName = "callGroqAPI"
    /\ fnOut = <<>>
    /\ fnOut' = <<callGroqAPI(fnIn)>>
    /\ UNCHANGED <<fnName, fnIn, svcVars>>

SpecCall == InitCall /\ [][CallGroq]_vars

CallReturned == fnName = "callGroqAPI" /\ fnOut # <<>>

\* the response of an exchange carries a structured error payload
HasErrorPayload(x) == ~x.doErr /\ ~x.readErr /\ x.bodyOK /\ x.apiError # <<>>

TransportErrors ==
    {"failed to call Groq API", "failed to read response", "Groq API error (status)"}

\* C15: a call ends in a transport error when the request fails or the status is not
\* success, in the provider API error whenever the response carries a structured
\* error payload, in the empty-response error when a successful response has no
\* choice, and otherwise in the text of the first choice.
C15_OneOutcome ==
    CallReturned =>
        LET x == fnIn
            out == fnOut[1]
        IN  /\ HasErrorPayload(x) =>
                  /\ out.err.chain = <<"Groq API error">> \o x.apiError
                  /\ out.content = <<>>
            /\ (~HasErrorPayload(x) /\ (x.doErr \/ x.readErr \/ x.status # 200)) =>
                  /\ out.err # NoError
                  /\ out.err.chain[1] \in TransportErrors
                  /\ out.content = <<>>
            /\ (~x.doErr /\ ~x.readErr /\ x.status = 200 /\ x.bodyOK
                   /\ x.apiError = <<>>) =>
                  IF x.choices = <<>>
                  THEN out.err = Error(<<"empty response from Groq">>, <<>>)
                         /\ out.content = <<>>
                  ELSE out.err = NoError /\ out.content = x.choices[1]

(***************************************************************************)
(* The three gateway operations after their provider call, on completions  *)
(* whose text is a JSON document or prose, bare or inside a code block.    *)
(***************************************************************************)
GatewayOps == {"AnalyzeSentiments", "ExtractThemes", "GenerateImpactSummary"}

ReplyBodies ==
    {<<"S", "u", "r", "e", "!">>, <<"D_sentiments_a">>, <<"D_themes">>, <<"D_impact">>,
     <<"D_null">>, <<>>}

ReplyTexts ==
    UNION {{b, FenceJSON \o <<"\n">> \o b \o <<"\n">> \o Fence, Fence \o b \o Fence,
            <<" ">> \o b \o <<"\n">>} : b \in ReplyBodies}

ReplyInputs == [op : GatewayOps, x : {Completion(t) : t \in ReplyTexts}]

\* the code of an operation after callGroqAPI
GatewayEnd(op, x) ==
    CASE op = "AnalyzeSentiments" -> AnalyzeSentimentsEnd(x)
      [] op = "ExtractThemes" -> ExtractThemesEnd(x)
      [] OTHER -> GenerateImpactSummaryEnd(x)

InitReply ==
    /\ ServiceIdle
    /\ fnName = "reply"
    /\ fnIn \in ReplyInputs
    /\ fnOut = <<>>

CallReply ==
    /\ fnName = "reply"
    /\ fnOut = <<>>
    /\ fnOut' = <<GatewayEnd(fnIn.op, fnIn.x)>>
    /\ UNCHANGED <<fnName, fnIn, svcVars>>

SpecReply == InitReply /\ [][CallReply]_vars

ReplyReturned == fnName = "reply" /\ fnOut # <<>>

\* a occurs in b as a contiguous piece
IsInfix(a, b) ==
    \E i \in 0..(Len(b) - Len(a)) : SubSeq(b, i + 1, i + Len(a)) = a

ParseContexts ==
    {"failed to parse sentiment results", "failed to parse theme results",
     "failed to parse impact summary"}

\* C16: when the text of a completion does not parse into the expected shape, the
\* operation returns no result and a parse error whose message contains the response
\* text exactly as the provider returned it.
C16_ErrorCarriesRawText ==
    (ReplyReturned /\ fnOut[1].err # NoError) =>
        /\ fnOut[1].value = <<>>
        /\ fnOut[1].err.chain[1] \in ParseContexts
        /\ IsInfix(fnIn.x.choices[1], fnOut[1].err.response)

(***************************************************************************)
(* The result of a run of Analyze: C17.                                    *)
(***************************************************************************)
\* C17: in every AnalysisResult that Analyze returns, each ReviewCollection holds the
\* review sequence the run was called with for its side, in order, with Count its
\* length, and the ComparisonResult holds the summaries computed from this run's
\* sentiment results, the shift of exactly those two summaries, and this run's themes.
C17_ResultOfThisRun ==
    \A c \in Clients :
        (pc[c] = "an_ret" /\ an[c].ret[1].result # <<>>) =>
            LET res == an[c].ret[1].result[1]
                log == calls[c]
                pre == log[1].args.reviews
                post == log[2].args.reviews
                preSummary == calculateSentimentSummary(log[1].out.value, pre)
                postSummary == calculateSentimentSummary(log[2].out.value, post)
            IN  /\ pre = an[c].preReviews
                /\ post = an[c].postReviews
                /\ res.PreLaunchReviews.Reviews = pre
                /\ res.PreLaunchReviews.Count = Len(pre)
                /\ res.PreLaunchReviews.Type = "pre_launch"
                /\ res.PostLaunchReviews.Reviews = post
                /\ res.PostLaunchReviews.Count = Len(post)
                /\ res.PostLaunchReviews.Type = "post_launch"
                /\ res.Comparison.PreLaunchSentiment = preSummary
                /\ res.Comparison.PostLaunchSentiment = postSummary
                /\ res.Comparison.SentimentShift
                     = calculateSentimentShift(preSummary, postSummary)
                /\ res.Comparison.Themes = log[3].out.value

\* C17 witness: a run on two pre-launch reviews and one post-launch review returned
\* a result with a non-zero shift and at least one theme.
C17_Witness ==
    \E c \in Clients :
        /\ pc[c] = "an_ret"
        /\ an[c].ret[1].result # <<>>
        /\ Len(an[c].preReviews) = 2
        /\ Len(an[c].postReviews) = 1
        /\ an[c].ret[1].result[1].Comparison.SentimentShift.num # 0
        /\ an[c].ret[1].result[1].Comparison.Themes # <<>>

(***************************************************************************)
(* The handlers: C18, C19, C20.  uploaded[c] is the pair of the latest     *)
(* upload request of client c when it was answered 200, <<>> otherwise.    *)
(***************************************************************************)
UploadPcs == {"up_pre", "up_post", "up_count_pre", "up_count_post"}

\* the pairs that one successful upload stores
SuccessfulPairs ==
    {[preReviews |-> ParseCSV(r.preLaunch[1]).reviews,
      postReviews |-> ParseCSV(r.postLaunch[1]).reviews] :
        r \in {q \in UNION {UploadRequests(c) : c \in Clients} :
                  /\ q.method = "POST" /\ q.formOK
                  /\ q.preLaunch # <<>> /\ q.postLaunch # <<>>
                  /\ ParseCSV(q.preLaunch[1]).err = NoError
                  /\ ParseCSV(q.postLaunch[1]).err = NoError}}

\* C18: a failed upload leaves the stored sequences as they were, so whenever no
\* upload is in progress the stored pair is the initial empty pair or the pair of one
\* single successful upload.
C18_FailedUploadKeepsPair ==
    (\A c \in Clients : pc[c] \notin UploadPcs) =>
        h \in {[preReviews |-> <<>>, postReviews |-> <<>>]} \cup SuccessfulPairs

\* C19: under every interleaving the analysis service is never called with an empty
\* pre-launch or post-launch sequence, and a request that finds a stored sequence
\* empty is answered 400 "Please upload CSV files first" without a gateway call.
C19_NeverAnalyzeEmpty ==
    \A c \in Clients :
        /\ (pc[c] \in RunPcs /\ req[c].kind = "analyze") =>
              (an[c].preReviews # <<>> /\ an[c].postReviews # <<>>)
        /\ (req[c].kind = "analyze" /\ resp[c].error = "Please upload CSV files first") =>
              (resp[c].code = 400 /\ calls[c] = <<>>)

\* C20: when the latest upload was answered 200 and no other upload request was made,
\* an analyze request is not rejected with "Please upload CSV files first" and the
\* analysis service runs on the uploaded pair.
C20_AnalyzeAfterUpload ==
    \A c \in Clients :
        (/\ uploaded[c] # <<>>
         /\ \A d \in Clients \ {c} : req[d].kind = "none"
         /\ req[c].kind = "analyze"
         /\ req[c].method = "POST") =>
            /\ resp[c].error # "Please upload CSV files first"
            /\ pc[c] \in RunPcs =>
                  /\ an[c].preReviews = uploaded[c][1][1]
                  /\ an[c].postReviews = uploaded[c][1][2]

====
